---- MODULE Spec2Model ----
(***************************************************************************)
(* Model of gcode-inject.py: a batch tool that splices a filament pause    *)
(* and a hole-filling command block into a sliced G-code file.             *)
(*                                                                         *)
(* Text is modelled at character level: a Python str is a tuple of         *)
(* one-character strings, a line read from a file keeps its trailing       *)
(* "\n" (the last line of a file may lack it).  Floats are modelled in     *)
(* fixed point, in thousandths (1.0 is 1000); binary rounding artefacts of *)
(* IEEE doubles are outside the model.  Python's None is None == <<>> and  *)
(* a present value v is Some(v) == <<v>>.                                  *)
(***************************************************************************)
EXTENDS Integers, Sequences, FiniteSets, TLC

VARIABLES pc, drl, tool, holes, err, in_gcode, design_centre, gcode_centre,
          sections, tool_changes, last_pos, amounts, hole_gcode, out_file

vars == <<pc, drl, tool, holes, err, in_gcode, design_centre, gcode_centre,
          sections, tool_changes, last_pos, amounts, hole_gcode, out_file>>

None == <<>>
Some(v) == <<v>>

(***************************************************************************)
(* Bounds of the model.                                                    *)
(***************************************************************************)
MaxDrillLen == 3
MaxGcodeLen == 6
MaxHoles == 3

(***************************************************************************)
(* Python str / float primitives used by the program.                      *)
(***************************************************************************)
Whitespace == {" ", "\n", "\t", "\r"}

\* str.startswith(p)
StartsWith(s, p) == Len(s) >= Len(p) /\ SubSeq(s, 1, Len(p)) = p

\* c in s, for a single character c
Contains(s, c) == \E i \in 1..Len(s) : s[i] = c

\* sub in s, for a substring
ContainsStr(s, sub) ==
    \E i \in 1..(Len(s) - Len(sub) + 1) : SubSeq(s, i, i + Len(sub) - 1) = sub

RECURSIVE LStrip(_)
LStrip(s) == IF s # <<>> /\ Head(s) \in Whitespace THEN LStrip(Tail(s)) ELSE s

RECURSIVE RStrip(_)
RStrip(s) ==
    IF s # <<>> /\ s[Len(s)] \in Whitespace THEN RStrip(SubSeq(s, 1, Len(s) - 1)) ELSE s

\* str.strip()
Strip(s) == RStrip(LStrip(s))

\* str.split(c) for a one-character separator: the parts between separators,
\* empty parts included.
RECURSIVE SplitChar(_, _)
SplitChar(s, c) ==
    IF ~Contains(s, c) THEN <<s>>
    ELSE LET k == CHOOSE i \in 1..Len(s) : s[i] = c /\ \A j \in 1..(i - 1) : s[j] # c
         IN  <<SubSeq(s, 1, k - 1)>> \o SplitChar(SubSeq(s, k + 1, Len(s)), c)

\* str.split() with no separator: the maximal runs of non-whitespace.
RECURSIVE SplitWS(_)
SplitWS(s) ==
    LET t == LStrip(s)
    IN  IF t = <<>> THEN <<>>
        ELSE LET W == {i \in 1..Len(t) : t[i] \in Whitespace}
                 k == IF W = {} THEN Len(t) + 1
                      ELSE CHOOSE i \in W : \A j \in W : i <= j
             IN  <<SubSeq(t, 1, k - 1)>> \o SplitWS(SubSeq(t, k, Len(t)))

Digits == <<"0", "1", "2", "3", "4", "5", "6", "7", "8", "9">>

IsDigit(c) == \E d \in 1..10 : Digits[d] = c

DigitVal(c) == (CHOOSE d \in 1..10 : Digits[d] = c) - 1

RECURSIVE NatVal(_)
NatVal(s) ==
    IF s = <<>> THEN 0 ELSE NatVal(SubSeq(s, 1, Len(s) - 1)) * 10 + DigitVal(s[Len(s)])

\* The fraction digits of a decimal literal as thousandths.
FracVal(f) ==
    LET p == SubSeq(f \o <<"0", "0", "0">>, 1, 3) IN NatVal(p)

\* float(s): Some(value in thousandths), or None where Python raises
\* ValueError.  Accepted here: optional sign, digits with at most one ".",
\* at least one digit, surrounding whitespace ignored.
ParseFloat(s) ==
    LET t    == Strip(s)
        neg  == t # <<>> /\ Head(t) = "-"
        body == IF t # <<>> /\ Head(t) \in {"-", "+"} THEN Tail(t) ELSE t
        ps   == SplitChar(body, ".")
        ip   == ps[1]
        fp   == IF Len(ps) = 2 THEN ps[2] ELSE <<>>
        ok   == /\ Len(ps) <= 2
                /\ Len(ip) + Len(fp) >= 1
                /\ \A i \in 1..Len(ip) : IsDigit(ip[i])
                /\ \A i \in 1..Len(fp) : IsDigit(fp[i])
        mag  == NatVal(ip) * 1000 + FracVal(fp)
    IN  IF ok THEN Some(IF neg THEN 0 - mag ELSE mag) ELSE None

RECURSIVE NatStr(_)
NatStr(n) ==
    IF n < 10 THEN <<Digits[n + 1]>> ELSE NatStr(n \div 10) \o <<Digits[(n % 10) + 1]>>

\* The fraction part of repr(float): three digits, trailing zeros dropped,
\* one digit at least.
FracStr(f) ==
    IF f = 0 THEN <<"0">>
    ELSE IF f % 100 = 0 THEN NatStr(f \div 100)
    ELSE IF f % 10 = 0
         THEN <<Digits[(f \div 100) + 1], Digits[((f \div 10) % 10) + 1]>>
    ELSE <<Digits[(f \div 100) + 1], Digits[((f \div 10) % 10) + 1], Digits[(f % 10) + 1]>>

\* f"{v}" for a float v in thousandths (7000 gives 7.0, 2950 gives 2.95).
FormatFloat(v) ==
    LET a == IF v < 0 THEN 0 - v ELSE v
    IN  (IF v < 0 THEN <<"-">> ELSE <<>>)
        \o NatStr(a \div 1000) \o <<".">> \o FracStr(a % 1000)

\* f"{o}" for an optional float: None formats as the word None.
FormatOpt(o) == IF o = None THEN <<"N", "o", "n", "e">> ELSE FormatFloat(o[1])

\* round(v, 2): to the nearest hundredth, ties to the even hundredth.
Round2(v) ==
    LET q == v \div 10
        r == v % 10
    IN  IF r < 5 THEN q * 10
        ELSE IF r > 5 THEN (q + 1) * 10
        ELSE IF q % 2 = 0 THEN q * 10 ELSE (q + 1) * 10

\* All sequences over S of length at most n.
SeqsUpTo(S, n) == UNION {[1..k -> S] : k \in 0..n}

(***************************************************************************)
(* parse_drill_file                                                        *)
(***************************************************************************)
DrlT1    == <<"T", "1", "\n">>
DrlT2    == <<"T", "2", "\n">>
DrlDef   == <<"T", "1", "C", "0", ".", "8", "\n">>
DrlXY12  == <<"X", "1", "Y", "2", "\n">>
DrlXY21  == <<"X", "2", ".", "5", "Y", "1", "\n">>
DrlXonly == <<"X", "1", "\n">>
DrlBadX  == <<"X", "a", "Y", "1", "\n">>
DrlNoY   == <<"X", "1", "Y", "\n">>
DrlOther == <<"M", "3", "0", "\n">>

\* The records a drill stream of the model is made of.
DrillLines ==
    {DrlT1, DrlT2, DrlDef, DrlXY12, DrlXY21, DrlXonly, DrlBadX, DrlNoY, DrlOther}

ToolT1 == <<"T", "1">>
ToolT2 == <<"T", "2">>

\* IsToolSelect without the test that sets tool definitions aside.
IsToolSelectAnyT(line) == StartsWith(line, <<"T">>)

\* Line 102: the record selects a tool (a tool definition carries a C).
IsToolSelect(line) == StartsWith(line, <<"T">>) /\ ~Contains(line, "C")

\* Line 104, first two conjuncts: the record is taken for a hole position.
IsCoordRecord(line) == StartsWith(line, <<"X">>) /\ Contains(line, "Y")

\* Lines 106-109: the text of the two components and their values.
CoordX(line) == ParseFloat(Tail(SplitChar(line, "Y")[1]))
CoordY(line) == ParseFloat(SplitChar(line, "Y")[2])

\* DrillTakes without the comparison of the active tool.
DrillTakesAnyTool(line, current_tool, t) == IsCoordRecord(line)

\* Line 104, whole condition.
DrillTakes(line, current_tool, t) == IsCoordRecord(line) /\ current_tool = Some(t)

\* The body of the loop of parse_drill_file from record i on; st carries
\* current_tool and holes.  ok = FALSE is the ValueError float() raises.
RECURSIVE ParseDrillFrom(_, _, _, _)
ParseDrillFrom(lines, i, t, st) ==
    IF i > Len(lines) THEN [ok |-> TRUE, holes |-> st.holes]
    ELSE LET line == Strip(lines[i])
             ct   == IF IsToolSelect(line) THEN Some(line) ELSE st.current_tool
         IN  IF DrillTakes(line, ct, t)
             THEN IF CoordX(line) = None \/ CoordY(line) = None
                  THEN [ok |-> FALSE, holes |-> <<>>]
                  ELSE ParseDrillFrom(lines, i + 1, t,
                          [current_tool |-> ct,
                           holes |-> Append(st.holes, <<CoordX(line)[1], CoordY(line)[1]>>)])
             ELSE ParseDrillFrom(lines, i + 1, t, [current_tool |-> ct, holes |-> st.holes])

parse_drill_file(lines, t) ==
    ParseDrillFrom(lines, 1, t, [current_tool |-> None, holes |-> <<>>])

NoPos == <<None, None, None>>
DefaultAmounts == [extrusion |-> 480, retraction |-> 7500]

\* Initial values of the variables a specification does not use.
Idle ==
    /\ in_gcode = <<>>
    /\ design_centre = <<0, 0>>
    /\ gcode_centre = <<0, 0>>
    /\ sections = <<>>
    /\ tool_changes = <<>>
    /\ last_pos = NoPos
    /\ amounts = DefaultAmounts
    /\ hole_gcode = <<>>
    /\ out_file = None

InitDrill ==
    /\ pc = "start"
    /\ drl \in SeqsUpTo(DrillLines, MaxDrillLen)
    /\ tool \in {ToolT1, ToolT2}
    /\ holes = <<>>
    /\ err = "none"
    /\ Idle

\* A call parse_drill_file(drl, tool).
CallParseDrill ==
    /\ pc = "start"
    /\ \E r \in {parse_drill_file(drl, tool)} :
           /\ holes' = r.holes
           /\ err' = IF r.ok THEN "none" ELSE "ValueError: could not convert string to float"
    /\ pc' = "done"
    /\ UNCHANGED <<drl, tool, in_gcode, design_centre, gcode_centre, sections,
                   tool_changes, last_pos, amounts, hole_gcode, out_file>>

NextDrill == CallParseDrill

SpecDrill == InitDrill /\ [][NextDrill]_vars

(***************************************************************************)
(* The G-code stream.  A stream is what file.readlines() returns: every    *)
(* line but possibly the last ends with "\n".                              *)
(***************************************************************************)
GTool  == <<"T", "1", "\n">>
GWipe  == <<";", "T", "Y", "P", "E", ":", "W", "i", "p", "e", " ", "t", "o", "w", "e", "r", "\n">>
GPerim == <<";", "T", "Y", "P", "E", ":", "P", "e", "r", "i", "m", "e", "t", "e", "r", "\n">>
GMove  == <<"G", "1", " ", "X", "1", " ", "Y", "2", " ", "Z", "3", "\n">>
\* The metadata line; its JSON payload is abbreviated to {} and the centre
\* decoded from it is the variable gcode_centre.
GMeta  == <<";", " ", "o", "b", "j", "e", "c", "t", "s", "_", "i", "n", "f", "o", " ", "=", " ", "{", "}", "\n">>

GcodeLines == {GTool, GWipe, GPerim, GMove, GMeta}

\* The stream with the newline of its last line missing.
NoFinalNewline(lines) ==
    [lines EXCEPT ![Len(lines)] = SubSeq(lines[Len(lines)], 1, Len(lines[Len(lines)]) - 1)]

GcodeStreams(n) ==
    LET full == SeqsUpTo(GcodeLines, n)
    IN  full \cup {NoFinalNewline(l) : l \in full \ {<<>>}}

TypePrefix   == <<";", "T", "Y", "P", "E", ":">>
WipeTower    == <<"W", "i", "p", "e", " ", "t", "o", "w", "e", "r">>
HeaderName   == <<"H", "e", "a", "d", "e", "r">>
ObjectsInfo  == <<"o", "b", "j", "e", "c", "t", "s", "_", "i", "n", "f", "o">>

\* find_gcode_objects_center: without an objects_info line the bounding box
\* stays None and line 90 raises TypeError (None here); with one, the result
\* is the centre decoded from its payload.
find_gcode_objects_center(lines, decoded) ==
    IF \E i \in 1..Len(lines) : ContainsStr(lines[i], ObjectsInfo)
    THEN Some(decoded) ELSE None

\* SectionStart with the marker line counted into the section it opens.
SectionStartAtMarker(i) == i
\* Line 122: the section a marker at line i opens starts on the next line.
SectionStart(i) == i + 1

\* get_gcode_sections from line i (zero-based) on.  At the end of the loop
\* i keeps the index of the last line (line 123).
RECURSIVE SectionsFrom(_, _, _, _, _)
SectionsFrom(lines, i, current_section, current_start_line, acc) ==
    IF i >= Len(lines)
    THEN Append(acc, <<current_section, current_start_line, i - 1>>)
    ELSE LET line == lines[i + 1]
         IN  IF StartsWith(line, TypePrefix)
             THEN SectionsFrom(lines, i + 1, Strip(SplitChar(line, ":")[2]),
                               SectionStart(i),
                               Append(acc, <<current_section, current_start_line, i>>))
             ELSE SectionsFrom(lines, i + 1, current_section, current_start_line, acc)

\* On an empty file the loop variable i is unbound at line 123
\* (UnboundLocalError): ok = FALSE.
get_gcode_sections(lines) ==
    IF lines = <<>> THEN [ok |-> FALSE, sections |-> <<>>]
    ELSE [ok |-> TRUE, sections |-> SectionsFrom(lines, 0, HeaderName, 0, <<>>)]

RECURSIVE ToolChangesFrom(_, _)
ToolChangesFrom(lines, i) ==
    IF i >= Len(lines) THEN <<>>
    ELSE (IF StartsWith(lines[i + 1], <<"T">>)
          THEN <<<<i, Strip(lines[i + 1])>>>> ELSE <<>>)
         \o ToolChangesFrom(lines, i + 1)

get_tool_changes(lines) == ToolChangesFrom(lines, 0)

\* Lines 142-148 for one motion line: the parts update the axes in turn.
\* pos.ok = FALSE is the ValueError of float().
RECURSIVE PartsUpdate(_, _, _)
PartsUpdate(parts, k, pos) ==
    IF k > Len(parts) \/ ~pos.ok THEN pos
    ELSE LET part == parts[k]
             v    == ParseFloat(Tail(part))
             axis == IF StartsWith(part, <<"X">>) THEN 1
                     ELSE IF StartsWith(part, <<"Y">>) THEN 2
                     ELSE IF StartsWith(part, <<"Z">>) THEN 3 ELSE 0
         IN  IF axis = 0 THEN PartsUpdate(parts, k + 1, pos)
             ELSE IF v = None THEN [ok |-> FALSE, pos |-> pos.pos]
             ELSE PartsUpdate(parts, k + 1,
                              [ok |-> TRUE, pos |-> [pos.pos EXCEPT ![axis] = v]])

RECURSIVE LastCoordsFrom(_, _, _)
LastCoordsFrom(lines, i, pos) ==
    IF i > Len(lines) \/ ~pos.ok THEN pos
    ELSE LET line == lines[i]
         IN  IF StartsWith(line, <<"G", "0">>) \/ StartsWith(line, <<"G", "1">>)
             THEN LastCoordsFrom(lines, i + 1, PartsUpdate(SplitWS(line), 1, pos))
             ELSE LastCoordsFrom(lines, i + 1, pos)

get_last_coords(lines) == LastCoordsFrom(lines, 1, [ok |-> TRUE, pos |-> NoPos])

(***************************************************************************)
(* generate_gcode_for_holes                                                *)
(***************************************************************************)
TempRaise   == <<"M", "1", "0", "4", " ", "S", "2", "4", "0", "\n">>
TempRestore == <<"M", "1", "0", "4", " ", "S", "2", "2", "0", "\n">>
Dwell       == <<"G", "4", " ", "P", "1", "0", "0", "0", "\n">>
G0X   == <<"G", "0", " ", "X">>
G0Z   == <<"G", "0", " ", "Z">>
G1E   == <<"G", "1", " ", "E">>
SpY   == <<" ", "Y">>
SpZ   == <<" ", "Z">>
Feed  == <<"F", "4", "2", "0", "0", "\n">>
SpFeed == <<" ", "F", "4", "2", "0", "0", "\n">>

\* Lines 164-180: the commands for one hole (x, y), with z the origin
\* height and above the raised height.
HoleBlockNoDwell(x, y, z, above, am) ==
    << G0X \o FormatFloat(x) \o SpY \o FormatFloat(y) \o SpZ \o FormatFloat(above) \o Feed,
       G0Z \o FormatFloat(z - 50) \o Feed,
       G1E \o FormatFloat(am.retraction) \o SpFeed,
       G1E \o FormatFloat(am.extrusion) \o Feed,
       G1E \o <<"-">> \o FormatFloat(am.retraction) \o SpFeed,
       Dwell,
       G0X \o FormatFloat(x + 1000) \o SpY \o FormatFloat(y) \o SpFeed,
       G0Z \o FormatFloat(above) \o Feed >>

HoleBlock(x, y, z, above, am) ==
    << G0X \o FormatFloat(x) \o SpY \o FormatFloat(y) \o SpZ \o FormatFloat(above) \o Feed,
       G0Z \o FormatFloat(z - 50) \o Feed,
       G1E \o FormatFloat(am.retraction) \o SpFeed,
       G1E \o FormatFloat(am.extrusion) \o Feed,
       Dwell,
       G1E \o <<"-">> \o FormatFloat(am.retraction) \o SpFeed,
       Dwell,
       G0X \o FormatFloat(x + 1000) \o SpY \o FormatFloat(y) \o SpFeed,
       G0Z \o FormatFloat(above) \o Feed >>

RECURSIVE HoleBlocks(_, _, _, _, _)
HoleBlocks(hs, k, z, above, am) ==
    IF k > Len(hs) THEN <<>>
    ELSE HoleBlock(hs[k][1], hs[k][2], z, above, am) \o HoleBlocks(hs, k + 1, z, above, am)

\* The values of x and y at line 182: the loop of line 162 rebinds the x and
\* y unpacked from last_pos at line 154, so after a non-empty loop they are
\* the last hole's coordinates.
XYAfterLoop(hs, pos) ==
    IF hs = <<>> THEN <<pos[1], pos[2]>>
    ELSE <<Some(hs[Len(hs)][1]), Some(hs[Len(hs)][2])>>

\* ok = FALSE is the TypeError of 5 + z at line 156 when z is None.
generate_gcode_for_holes(hs, pos, am) ==
    IF pos[3] = None THEN [ok |-> FALSE, gcode |-> <<>>]
    ELSE LET z     == pos[3][1]
             above == 5000 + z
             xy    == XYAfterLoop(hs, pos)
         IN  [ok |-> TRUE,
              gcode |->
                  <<TempRaise, G0Z \o FormatFloat(above) \o Feed>>
                  \o HoleBlocks(hs, 1, z, above, am)
                  \o << G0X \o FormatOpt(xy[1]) \o SpY \o FormatOpt(xy[2]) \o SpFeed,
                        G0Z \o FormatFloat(z) \o SpFeed,
                        TempRestore >>]

Coords == {0, 1000, 2500}
Points == Coords \X Coords

InitSynth ==
    /\ pc = "start"
    /\ holes \in SeqsUpTo(Points, MaxHoles)
    /\ last_pos \in {<<Some(x), Some(y), Some(z)>> : x \in {0, 2500}, y \in {1000}, z \in {250, 3000}}
    /\ amounts \in {DefaultAmounts, [extrusion |-> 1000, retraction |-> 2000]}
    /\ hole_gcode = <<>>
    /\ err = "none"
    /\ drl = <<>> /\ tool = ToolT1
    /\ in_gcode = <<>>
    /\ design_centre = <<0, 0>>
    /\ gcode_centre = <<0, 0>>
    /\ sections = <<>>
    /\ tool_changes = <<>>
    /\ out_file = None

\* A call generate_gcode_for_holes(holes, last_pos, extrusion, retraction).
CallGenerate ==
    /\ pc = "start"
    /\ \E r \in {generate_gcode_for_holes(holes, last_pos, amounts)} :
           /\ hole_gcode' = r.gcode
           /\ err' = IF r.ok THEN "none" ELSE "TypeError"
    /\ pc' = "done"
    /\ UNCHANGED <<drl, tool, holes, in_gcode, design_centre, gcode_centre, sections,
                   tool_changes, last_pos, amounts, out_file>>

NextSynth == CallGenerate

SpecSynth == InitSynth /\ [][NextSynth]_vars

(***************************************************************************)
(* main                                                                    *)
(***************************************************************************)
M600 == <<"M", "6", "0", "0", "\n">>
M400 == <<"M", "4", "0", "0", "\n">>

ErrNoMetadata    == "TypeError: no objects_info line"
ErrFloat         == "ValueError: could not convert string to float"
ErrNoToolChange  == "ValueError: No tool changes found"
ErrOneToolChange == "ValueError: Only one tool change found"
ErrTooMany       == "ValueError: More than two tool changes found"
ErrNoWipe        == "ValueError: No wipe tower section found after the tool change"
ErrNoZ           == "TypeError: z is None"

\* list.insert(i, x), i zero-based: x goes before position i, or to the end.
ListInsert(l, i, x) ==
    IF i >= Len(l) THEN Append(l, x)
    ELSE SubSeq(l, 1, i) \o <<x>> \o SubSeq(l, i + 1, Len(l))

\* Lines 207 and 213: the offset and its application to one hole.
OffsetHoleNoFlip(h, dc, gc) ==
    <<Round2(h[1] + (gc[1] - dc[1])), Round2(h[2] + (gc[2] - dc[2]))>>

OffsetHole(h, dc, gc) ==
    LET centre_delta == <<gc[1] - dc[1], gc[2] - dc[2]>>
    IN  <<Round2(h[1] + centre_delta[1]), Round2(h[2] + centre_delta[2] + 2 * dc[2])>>

\* Lines 221-226: the error the count of tool changes raises, "none" for 2.
CheckToolChangesNoMax(n) ==
    IF n < 1 THEN ErrNoToolChange
    ELSE IF n = 1 THEN ErrOneToolChange
    ELSE "none"

CheckToolChanges(n) ==
    IF n < 1 THEN ErrNoToolChange
    ELSE IF n = 1 THEN ErrOneToolChange
    ELSE IF n > 2 THEN ErrTooMany
    ELSE "none"

\* Line 229: the line of the tool change the pause and the search hang on.
FirstToolChangeLine(tcs) == tcs[1][1]

ToolChangeLine(tcs) == tcs[2][1]

\* Line 231: the first section named "Wipe tower" that starts after the
\* tool change, None when there is none.
WipeSectionAnywhere(secs, tool_change) ==
    LET C == {k \in 1..Len(secs) : secs[k][1] = WipeTower}
    IN  IF C = {} THEN None ELSE Some(secs[CHOOSE k \in C : \A j \in C : k <= j])

WipeSection(secs, tool_change) ==
    LET C == {k \in 1..Len(secs) : secs[k][1] = WipeTower /\ secs[k][2] > tool_change}
    IN  IF C = {} THEN None ELSE Some(secs[CHOOSE k \in C : \A j \in C : k <= j])

\* Lines 250-254: the pause goes into head, then head, fill and tail are joined.
Combine(head, tool_change, fill, tail) ==
    LET h1 == ListInsert(head, tool_change + 1, M600)
        h2 == ListInsert(h1, tool_change + 2, M400)
    IN  h2 \o fill \o tail

\* write_gcode writes the strings one after the other; the result is given
\* as the lines of the written file.  A string without a final "\n" runs
\* into the string written after it.
RECURSIVE FileLines(_, _)
FileLines(strs, k) ==
    IF k > Len(strs) THEN <<>>
    ELSE IF k < Len(strs) /\ (strs[k] = <<>> \/ strs[k][Len(strs[k])] # "\n")
         THEN FileLines([strs EXCEPT ![k + 1] = strs[k] \o strs[k + 1]], k + 1)
         ELSE <<strs[k]>> \o FileLines(strs, k + 1)

write_gcode(combined_gcode) == FileLines(combined_gcode, 1)

\* The run of main on the three inputs: the values of its locals when it
\* ends, the file written (None when none is) and the exception ("none").
MainRun(drill, lines, dc, decoded) ==
    LET base == [holes |-> <<>>, sections |-> <<>>, tool_changes |-> <<>>,
                 last_pos |-> NoPos, hole_gcode |-> <<>>, out_file |-> None,
                 err |-> "none"]
        gc == find_gcode_objects_center(lines, decoded)
        pr == parse_drill_file(drill, ToolT1)
    IN  IF gc = None THEN [base EXCEPT !.err = ErrNoMetadata]
        ELSE IF ~pr.ok THEN [base EXCEPT !.err = ErrFloat]
        ELSE
        LET hs   == [k \in 1..Len(pr.holes) |-> OffsetHole(pr.holes[k], dc, gc[1])]
            secs == get_gcode_sections(lines).sections
            tcs  == get_tool_changes(lines)
            b1   == [base EXCEPT !.holes = hs, !.sections = secs, !.tool_changes = tcs]
            verr == CheckToolChanges(Len(tcs))
        IN  IF verr # "none" THEN [b1 EXCEPT !.err = verr]
            ELSE
            LET tool_change == ToolChangeLine(tcs)
                wipe_section == WipeSection(secs, tool_change)
            IN  IF wipe_section = None THEN [b1 EXCEPT !.err = ErrNoWipe]
                ELSE
                LET insertion_point == wipe_section[1][3]
                    head == SubSeq(lines, 1, insertion_point + 1)
                    tail == SubSeq(lines, insertion_point + 2, Len(lines))
                    lc   == get_last_coords(head)
                    g    == generate_gcode_for_holes(hs, lc.pos, DefaultAmounts)
                    b2   == [b1 EXCEPT !.last_pos = lc.pos]
                IN  IF ~lc.ok THEN [b1 EXCEPT !.err = ErrFloat]
                    ELSE IF ~g.ok THEN [b2 EXCEPT !.err = ErrNoZ]
                    ELSE [b2 EXCEPT !.hole_gcode = g.gcode,
                                    !.out_file = Some(write_gcode(
                                        Combine(head, tool_change, g.gcode, tail)))]

Main ==
    /\ pc = "start"
    /\ \E r \in {MainRun(drl, in_gcode, design_centre, gcode_centre)} :
           /\ holes' = r.holes
           /\ sections' = r.sections
           /\ tool_changes' = r.tool_changes
           /\ last_pos' = r.last_pos
           /\ hole_gcode' = r.hole_gcode
           /\ out_file' = r.out_file
           /\ err' = r.err
    /\ pc' = "done"
    /\ UNCHANGED <<drl, tool, in_gcode, design_centre, gcode_centre, amounts>>

\* A longer stream: tool changes at lines 10 and 40, a "Wipe tower" marker
\* at line 44 (its section starts at line 45) and the next marker at line 47.
ScenarioStream ==
    [i \in 1..49 |->
        CASE i - 1 = 0 -> GMeta
          [] i - 1 \in {10, 40} -> GTool
          [] i - 1 = 44 -> GWipe
          [] i - 1 = 47 -> GPerim
          [] OTHER -> GMove]

\* The runs that explore the G-code stream, on one drill file and one pair
\* of centres.
Init ==
    /\ pc = "start"
    /\ drl = <<DrlT1, DrlXY12, DrlXY21>>
    /\ tool = ToolT1
    /\ in_gcode \in GcodeStreams(MaxGcodeLen) \cup {ScenarioStream}
    /\ design_centre = <<10000, 10000>>
    /\ gcode_centre = <<15000, 12000>>
    /\ holes = <<>> /\ sections = <<>> /\ tool_changes = <<>>
    /\ last_pos = NoPos /\ amounts = DefaultAmounts
    /\ hole_gcode = <<>> /\ out_file = None /\ err = "none"

Next == Main

Spec == Init /\ [][Next]_vars

\* The runs that explore the drill file and the two centres.
DrlXY22 == <<"X", "2", "Y", "2", "\n">>

AlignStreams ==
    { <<GMeta, GMove, GTool, GTool, GWipe, GPerim>>,
      <<GMove, GTool, GMeta>> }

InitAlign ==
    /\ pc = "start"
    /\ drl \in SeqsUpTo({DrlT1, DrlT2, DrlXY12, DrlXY21, DrlXY22, DrlBadX}, MaxDrillLen)
    /\ tool = ToolT1
    /\ in_gcode \in AlignStreams
    /\ design_centre \in {<<10000, 10000>>, <<3003, 1005>>}
    /\ gcode_centre \in {<<15000, 12000>>, <<15004, 12336>>}
    /\ holes = <<>> /\ sections = <<>> /\ tool_changes = <<>>
    /\ last_pos = NoPos /\ amounts = DefaultAmounts
    /\ hole_gcode = <<>> /\ out_file = None /\ err = "none"

SpecAlign == InitAlign /\ [][Next]_vars

\* The calls of get_gcode_sections on its own.
InitIndex ==
    /\ pc = "start"
    /\ in_gcode \in GcodeStreams(MaxGcodeLen)
    /\ drl = <<>> /\ tool = ToolT1
    /\ design_centre = <<0, 0>> /\ gcode_centre = <<0, 0>>
    /\ holes = <<>> /\ sections = <<>> /\ tool_changes = <<>>
    /\ last_pos = NoPos /\ amounts = DefaultAmounts
    /\ hole_gcode = <<>> /\ out_file = None /\ err = "none"

CallSections ==
    /\ pc = "start"
    /\ \E r \in {get_gcode_sections(in_gcode)} :
           /\ sections' = r.sections
           /\ err' = IF r.ok THEN "none" ELSE "UnboundLocalError"
    /\ pc' = "done"
    /\ UNCHANGED <<drl, tool, holes, in_gcode, design_centre, gcode_centre,
                   tool_changes, last_pos, amounts, hole_gcode, out_file>>

NextIndex == CallSections

SpecIndex == InitIndex /\ [][NextIndex]_vars

(***************************************************************************)
(* Properties of parse_drill_file, stated over the records of the stream.  *)
(***************************************************************************)
RecText(rec) == Strip(rec)

RecSelectsTool(rec) ==
    LET r == RecText(rec)
    IN  r # <<>> /\ r[1] = "T" /\ \A k \in 1..Len(r) : r[k] # "C"

RecIsCoord(rec) ==
    LET r == RecText(rec)
    IN  r # <<>> /\ r[1] = "X" /\ \E k \in 1..Len(r) : r[k] = "Y"

\* The tool active at record i: the latest tool-select record before it.
ActiveTool(stream, i) ==
    LET S == {j \in 1..(i - 1) : RecSelectsTool(stream[j])}
    IN  IF S = {} THEN None
        ELSE Some(RecText(stream[CHOOSE j \in S : \A k \in S : k <= j]))

RECURSIVE HolesOfTool(_, _, _)
HolesOfTool(stream, t, i) ==
    IF i > Len(stream) THEN <<>>
    ELSE (IF RecIsCoord(stream[i]) /\ ActiveTool(stream, i) = Some(t)
          THEN <<<<CoordX(RecText(stream[i]))[1], CoordY(RecText(stream[i]))[1]>>>>
          ELSE <<>>) \o HolesOfTool(stream, t, i + 1)

\* A record that starts with X and lacks a numeric X or Y component.
RecMalformed(rec) ==
    LET r == RecText(rec)
    IN  /\ r # <<>> /\ r[1] = "X"
        /\ \/ ~Contains(r, "Y")
           \/ CoordX(r) = None
           \/ CoordY(r) = None

\* C6: when parse_drill_file returns, it has emitted exactly the coordinate
\* records whose active tool is the requested one, in stream order, repeats
\* kept; a coordinate record before any tool-select is emitted for no tool.
C6_HolesOfActiveTool ==
    (pc = "done" /\ err = "none") => holes = HolesOfTool(drl, tool, 1)

C6_Witness ==
    /\ pc = "done" /\ err = "none"
    /\ Len(drl) = 3
    /\ RecIsCoord(drl[1]) /\ RecSelectsTool(drl[2]) /\ RecIsCoord(drl[3])
    /\ Len(holes) = 1

\* C7 as stated: any coordinate record lacking a numeric X or Y component
\* makes the parse fail, whichever tool is active at it.
C7_AnyMalformedFails ==
    (pc = "done" /\ \E i \in 1..Len(drl) : RecMalformed(drl[i])) => err # "none"

\* C7 amended: the parse fails exactly when a record that starts with X and
\* contains Y, met while the requested tool is active, has an X or Y
\* component that is no number; other malformed records are skipped.
C7_MalformedUnderToolFails ==
    pc = "done" =>
        (err # "none" <=>
            \E i \in 1..Len(drl) :
                /\ RecIsCoord(drl[i])
                /\ RecMalformed(drl[i])
                /\ ActiveTool(drl, i) = Some(tool))

C7_Witness ==
    /\ pc = "done" /\ err # "none"
    /\ Len(drl) = 3
    /\ RecMalformed(drl[1]) /\ RecText(drl[2]) = tool /\ RecMalformed(drl[3])

(***************************************************************************)
(* Properties of get_gcode_sections.                                       *)
(***************************************************************************)
\* The zero-based indices of the phase-marker lines of a stream.
MarkerLines(lines) ==
    {i \in 0..(Len(lines) - 1) :
        Len(lines[i + 1]) >= 6 /\ SubSeq(lines[i + 1], 1, 6) = TypePrefix}

\* The j-th smallest element of a set of numbers.
Nth(S, j) == CHOOSE m \in S : Cardinality({k \in S : k <= m}) = j

\* C8: for a non-empty stream the sections come in start order; the first
\* is Header from line 0; the j-th marker line i ends section j at i and
\* starts section j+1 at i+1; there is one section more than markers; the
\* last section ends at the last line index.
C8_SectionsAroundMarkers ==
    (pc = "done" /\ in_gcode # <<>>) =>
        LET M == MarkerLines(in_gcode)
            n == Cardinality(M)
        IN  /\ err = "none"
            /\ Len(sections) = n + 1
            /\ sections[1][1] = HeaderName /\ sections[1][2] = 0
            /\ \A j \in 1..n :
                   /\ sections[j][3] = Nth(M, j)
                   /\ sections[j + 1][2] = Nth(M, j) + 1
            /\ sections[n + 1][3] = Len(in_gcode) - 1
            /\ \A j \in 1..n : sections[j][2] <= sections[j + 1][2]

C8_Witness ==
    /\ pc = "done" /\ Len(in_gcode) = MaxGcodeLen
    /\ Cardinality(MarkerLines(in_gcode)) = 3
    /\ Len(sections) = 4
    /\ 0 \in MarkerLines(in_gcode)

(***************************************************************************)
(* Properties of generate_gcode_for_holes.                                 *)
(***************************************************************************)
\* C1: the sequence ends by going back to the origin: the lateral return
\* move carries the X and Y of last_pos and the move after it its Z.
C1_ReturnsToOrigin ==
    (pc = "done" /\ err = "none") =>
        LET n == Len(hole_gcode)
        IN  /\ hole_gcode[n - 2] =
                   G0X \o FormatOpt(last_pos[1]) \o SpY \o FormatOpt(last_pos[2]) \o SpFeed
            /\ hole_gcode[n - 1] = G0Z \o FormatOpt(last_pos[3]) \o SpFeed

\* The j-th command of the block that serves the hole (x, y).
BlockCommand(j, x, y) ==
    LET z  == last_pos[3][1]
        up == z + 5000
    IN  CASE j = 1 -> G0X \o FormatFloat(x) \o SpY \o FormatFloat(y) \o SpZ \o FormatFloat(up) \o Feed
          [] j = 2 -> G0Z \o FormatFloat(z - 50) \o Feed
          [] j = 3 -> G1E \o FormatFloat(amounts.retraction) \o SpFeed
          [] j = 4 -> G1E \o FormatFloat(amounts.extrusion) \o Feed
          [] j = 5 -> Dwell
          [] j = 6 -> G1E \o FormatFloat(0 - amounts.retraction) \o SpFeed
          [] j = 7 -> Dwell
          [] j = 8 -> G0X \o FormatFloat(x + 1000) \o SpY \o FormatFloat(y) \o SpFeed
          [] j = 9 -> G0Z \o FormatFloat(up) \o Feed

\* C10: N holes give exactly 2N dwell directives; the holes are served in
\* input order, each by the nine commands of its block in the stated order;
\* the temperature raise comes first and the restore last.
C10_BlocksInOrder ==
    (pc = "done" /\ err = "none") =>
        LET N == Len(holes)
            n == Len(hole_gcode)
        IN  /\ Cardinality({i \in 1..n : hole_gcode[i] = Dwell}) = 2 * N
            /\ n = 9 * N + 5
            /\ hole_gcode[1] = TempRaise
            /\ hole_gcode[n] = TempRestore
            /\ \A k \in 1..N : \A j \in 1..9 :
                   hole_gcode[2 + 9 * (k - 1) + j] = BlockCommand(j, holes[k][1], holes[k][2])

C10_Witness ==
    /\ pc = "done" /\ err = "none"
    /\ Len(holes) = MaxHoles
    /\ holes[1] # holes[2]
    /\ Len(hole_gcode) = 9 * MaxHoles + 5

(***************************************************************************)
(* Properties of main.                                                     *)
(***************************************************************************)
\* The zero-based indices of the lines that start with T.
TLines(lines) == {i \in 0..(Len(lines) - 1) : lines[i + 1] # <<>> /\ lines[i + 1][1] = "T"}

HasMetadata(lines) == \E i \in 1..Len(lines) : ContainsStr(lines[i], ObjectsInfo)

RECURSIVE Flatten(_)
Flatten(strs) == IF strs = <<>> THEN <<>> ELSE Head(strs) \o Flatten(Tail(strs))

\* C2: on a stream that carries its metadata line, 0, 1 or more than 2
\* tool-change lines abort the run with the error of that count and no
\* file is written; exactly 2 raise none of the three.
C2_ToolChangeCountDecides ==
    (pc = "done" /\ HasMetadata(in_gcode)) =>
        LET n == Cardinality(TLines(in_gcode))
        IN  /\ n = 0 => (err = ErrNoToolChange /\ out_file = None)
            /\ n = 1 => (err = ErrOneToolChange /\ out_file = None)
            /\ n > 2 => (err = ErrTooMany /\ out_file = None)
            /\ n = 2 => err \notin {ErrNoToolChange, ErrOneToolChange, ErrTooMany}

C2_Witness ==
    /\ pc = "done" /\ HasMetadata(in_gcode)
    /\ Cardinality(TLines(in_gcode)) = 3
    /\ \E k \in 1..Len(sections) : sections[k][1] = WipeTower /\ sections[k][2] > tool_changes[2][1]
    /\ err = ErrTooMany

\* C3 as stated: in a written file the pause follows the first tool change.
C3_PauseAfterFirstToolChange ==
    (pc = "done" /\ out_file # None) =>
        LET t1 == Nth(TLines(in_gcode), 1)
        IN  /\ out_file[1][t1 + 2] = M600
            /\ out_file[1][t1 + 3] = M400

\* C3 amended: in a written file M600 and then M400 stand directly after
\* the second of the two tool-change lines.
C3_PauseAfterSecondToolChange ==
    (pc = "done" /\ out_file # None) =>
        LET t2 == Nth(TLines(in_gcode), 2)
        IN  /\ out_file[1][t2 + 1] = in_gcode[t2 + 1]
            /\ out_file[1][t2 + 2] = M600
            /\ out_file[1][t2 + 3] = M400

C3_Witness ==
    /\ pc = "done" /\ out_file # None
    /\ TLines(in_gcode) = {10, 40}
    /\ \E k \in 1..Len(sections) : sections[k][1] = WipeTower /\ sections[k][2] = 45
    /\ out_file[1][41] = GTool
    /\ out_file[1][42] = M600
    /\ out_file[1][43] = M400

\* The sections named "Wipe tower" that start after line t.
WipeAfter(t) == {k \in 1..Len(sections) : sections[k][1] = WipeTower /\ sections[k][2] > t}

\* C4: the fill goes in after the end line of the first "Wipe tower" section
\* that starts after the second tool change: in the written text the fill
\* commands stand in one piece right after that original line and before
\* the original lines that followed it; without such a section the run
\* aborts and writes nothing.
C4_FillAfterWipeSection ==
    (pc = "done" /\ HasMetadata(in_gcode) /\ Cardinality(TLines(in_gcode)) = 2) =>
        LET t2 == Nth(TLines(in_gcode), 2)
            W  == WipeAfter(t2)
        IN  IF W = {} THEN err = ErrNoWipe /\ out_file = None
            ELSE out_file # None =>
                 LET ip   == sections[Nth(W, 1)][3]
                     text == Flatten(out_file[1])
                     fill == Flatten(hole_gcode)
                     upto == Len(Flatten(SubSeq(in_gcode, 1, ip + 1))) + Len(M600) + Len(M400)
                     line == in_gcode[ip + 1]
                 IN  /\ SubSeq(text, upto - Len(line) + 1, upto) = line
                     /\ SubSeq(text, upto + 1, upto + Len(fill)) = fill
                     /\ SubSeq(text, upto + Len(fill) + 1, Len(text))
                            = Flatten(SubSeq(in_gcode, ip + 2, Len(in_gcode)))

C4_Witness ==
    /\ pc = "done" /\ out_file # None
    /\ Cardinality(WipeAfter(Nth(TLines(in_gcode), 2))) = 1
    /\ \E k \in 1..Len(sections) : sections[k][1] = WipeTower /\ sections[k][2] < tool_changes[2][1]

\* The sequence l without the positions in D.
RECURSIVE Without(_, _, _)
Without(l, D, k) ==
    IF k > Len(l) THEN <<>>
    ELSE (IF k \in D THEN <<>> ELSE <<l[k]>>) \o Without(l, D, k + 1)

\* C5: the written file is the input with the pause lines and the fill
\* lines added: it has that many lines more, and without the added lines
\* it is the input, line for line.
C5_OriginalLinesPreserved ==
    (pc = "done" /\ out_file # None) =>
        LET t2 == Nth(TLines(in_gcode), 2)
            ip == sections[Nth(WipeAfter(t2), 1)][3]
            nf == Len(hole_gcode)
            added == {t2 + 2, t2 + 3} \cup ((ip + 4)..(ip + 3 + nf))
        IN  /\ Len(out_file[1]) = Len(in_gcode) + 2 + nf
            /\ Without(out_file[1], added, 1) = in_gcode

\* The distance of two numbers.
Dist(a, b) == IF a >= b THEN a - b ELSE b - a

\* C9: every parsed hole (x, y) becomes (x + (gx - dx), y + (gy - dy) + 2 dy)
\* to two decimals, number and order kept; centres (10, 10) and (15, 12)
\* take the hole (2, 2) to (7, 24).
C9_UniformOffset ==
    (pc = "done" /\ err \notin {ErrNoMetadata, ErrFloat}) =>
        LET parsed == HolesOfTool(drl, ToolT1, 1)
            dx == design_centre[1]
            dy == design_centre[2]
            gx == gcode_centre[1]
            gy == gcode_centre[2]
        IN  /\ Len(holes) = Len(parsed)
            /\ \A k \in 1..Len(parsed) :
                   /\ holes[k][1] % 10 = 0 /\ holes[k][2] % 10 = 0
                   /\ Dist(holes[k][1], parsed[k][1] + (gx - dx)) <= 5
                   /\ Dist(holes[k][2], parsed[k][2] + (gy - dy) + 2 * dy) <= 5
            /\ (/\ design_centre = <<10000, 10000>>
                /\ gcode_centre = <<15000, 12000>>
                /\ parsed = <<<<2000, 2000>>>>) => holes = <<<<7000, 24000>>>>

C9_Witness ==
    /\ pc = "done"
    /\ design_centre = <<10000, 10000>> /\ gcode_centre = <<15000, 12000>>
    /\ drl = <<DrlT1, DrlXY22>>
    /\ holes = <<<<7000, 24000>>>>

====
